---- MODULE Spec2Model ----
(***************************************************************************)
(* Model of javascript-version/server.py: a single-threaded development    *)
(* server (socketserver.TCPServer + SimpleHTTPRequestHandler) that serves  *)
(* static files, answers CORS preflights and proxies POST /api/track-order *)
(* to a backend with requests.post.                                        *)
(*                                                                         *)
(* One request is handled at a time.  A handler that cannot block is one   *)
(* action (Accept); the proxy handler has two blocking points, the read of *)
(* the request body and the upstream call, and is three actions (Accept,   *)
(* ReadBody, Forward).  Requests are HTTP/1.x requests with a well-formed  *)
(* request line.                                                           *)
(***************************************************************************)
EXTENDS Integers, Sequences, FiniteSets, TLC

VARIABLES
    srv,        \* position of main(): "start", "serving", "exited"
    platform,   \* operating system, decides the errno of EADDRINUSE
    bindFail,   \* why the bind failed: "none", "inuse", "denied"
    exitStatus, \* exit status of the process once srv = "exited"
    console,    \* kinds of messages main() printed to the operator console
    log,        \* kinds of messages printed while handling this request
    hpc,        \* position of the request handler: "accept", "read_body", "forward"
    req,        \* the request being handled (or the last one handled)
    post_data,  \* number of body bytes read from the client for this request
    bodyRead,   \* whether rfile.read was called for this request
    up,         \* what requests.post produced for this request
    upCalls,    \* upstream requests made for this request
    fsReads,    \* whether the static root was consulted for this request
    out,        \* responses written to the client connection for this request
    escaped,    \* an exception left the handler and reached socketserver
    served      \* number of requests accepted so far

vars == <<srv, platform, bindFail, exitStatus, console, log, hpc, req, post_data,
          bodyRead, up, upCalls, fsReads, out, escaped, served>>

\* ---------------------------------------------------------------- bounds
MaxBody == 1        \* longest body (request body, upstream body), in bytes
MaxRequests == 2    \* requests accepted in one run

Range(s) == {s[i] : i \in 1..Len(s)}

Min(a, b) == IF a < b THEN a ELSE b

\* ---------------------------------------------------------------- paths
\* A request target: its path segments, whether the path ends in "/", and
\* whether a query string follows.  "/" is [segs |-> <<>>, slash |-> TRUE].
ProxySegs == <<"api", "track-order">>

Path(segs, slash, query) == [segs |-> segs, slash |-> slash, query |-> query]

ReqPaths ==
    { Path(ProxySegs, FALSE, FALSE), Path(ProxySegs, FALSE, TRUE),
      Path(ProxySegs, TRUE, FALSE),
      Path(<<>>, TRUE, FALSE),
      Path(<<"index.html">>, FALSE, FALSE), Path(<<"index.html">>, TRUE, FALSE),
      Path(<<"app.js">>, FALSE, TRUE),
      Path(<<"css">>, FALSE, FALSE), Path(<<"css">>, TRUE, FALSE),
      Path(<<"secret.bin">>, FALSE, FALSE),
      Path(<<"missing">>, FALSE, FALSE) }

\* self.path == "/api/track-order": string equality on the whole target,
\* query string and trailing slash included.
IsProxyPathPrefix(p) == p.segs = ProxySegs
IsProxyPath(p) == p.segs = ProxySegs /\ ~p.slash /\ ~p.query

\* ---------------------------------------------------------------- static root
\* The directory "javascript-version": what each path (query dropped, as
\* translate_path does) resolves to.
FSNode(segs) ==
    CASE segs = <<>>             -> [kind |-> "dir",  readable |-> TRUE,  data |-> <<>>]
      [] segs = <<"index.html">> -> [kind |-> "file", readable |-> TRUE,  data |-> <<1, 2>>]
      [] segs = <<"app.js">>     -> [kind |-> "file", readable |-> TRUE,  data |-> <<2>>]
      [] segs = <<"css">>        -> [kind |-> "dir",  readable |-> TRUE,  data |-> <<>>]
      [] segs = <<"secret.bin">> -> [kind |-> "file", readable |-> FALSE, data |-> <<1>>]
      [] OTHER                   -> [kind |-> "none", readable |-> FALSE, data |-> <<>>]

\* for index in "index.html", "index.htm": os.path.isfile(join(path, index))
IndexNames == <<"index.html", "index.htm">>
HasIndex(segs) == \E i \in 1..Len(IndexNames) : FSNode(Append(segs, IndexNames[i])).kind = "file"
IndexNode(segs) ==
    LET i == CHOOSE k \in 1..Len(IndexNames) :
                 /\ FSNode(Append(segs, IndexNames[k])).kind = "file"
                 /\ \A j \in 1..(k - 1) : FSNode(Append(segs, IndexNames[j])).kind # "file"
    IN  FSNode(Append(segs, IndexNames[i]))

\* ---------------------------------------------------------------- requests
Methods == {"GET", "HEAD", "POST", "OPTIONS", "PUT"}

\* clenKind/clenVal: the Content-Length header ("missing", "bad" = not a
\* number, "int" with its value; -1 is a legal int() result).  sent/eof: the
\* client sends `sent` body bytes and then either closes its sending side
\* (eof) or keeps the connection open.  ims: an If-Modified-Since header not
\* older than the file.  wbudget: writes to the client that succeed before
\* the client connection breaks (0: the client is gone before the first
\* write; 1: it goes after the first, the headers; 2: it stays, no handler
\* makes more than two successful writes).
WriteBudgets == {0, 1, 2}
ClientStays(r) == r.wbudget = 2

MkReq(m, p, ck, cv, s, e, i, w) ==
    [method |-> m, path |-> p, clenKind |-> ck, clenVal |-> cv, sent |-> s,
     eof |-> e, ims |-> i, wbudget |-> w]

NoReq == MkReq("NONE", Path(<<>>, TRUE, FALSE), "missing", 0, 0, TRUE, FALSE, 0)

Requests ==
    { MkReq(m, p, "missing", 0, 0, TRUE, i, w) :
        m \in {"GET", "HEAD"}, p \in ReqPaths, i \in BOOLEAN, w \in WriteBudgets }
    \cup
    { MkReq(m, p, "missing", 0, 0, TRUE, FALSE, w) :
        m \in {"OPTIONS", "PUT"}, p \in ReqPaths, w \in WriteBudgets }
    \cup
    { MkReq("POST", p, ck, 0, 0, e, FALSE, w) :
        p \in {q \in ReqPaths : IsProxyPath(q)}, ck \in {"missing", "bad"},
        e \in BOOLEAN, w \in WriteBudgets }
    \cup
    { MkReq("POST", p, "int", cv, s, e, FALSE, w) :
        p \in {q \in ReqPaths : IsProxyPath(q)}, cv \in (-1)..MaxBody,
        s \in 0..MaxBody, e \in BOOLEAN, w \in WriteBudgets }
    \cup
    { MkReq("POST", p, "int", MaxBody, MaxBody, FALSE, FALSE, w) :
        p \in {q \in ReqPaths : ~IsProxyPath(q)}, w \in WriteBudgets }

\* ---------------------------------------------------------------- responses
NoBody == [kind |-> "none", data |-> <<>>]
Bytes(d) == [kind |-> "bytes", data |-> d]
ErrorPage == [kind |-> "errorpage", data |-> <<>>]
Listing == [kind |-> "listing", data |-> <<>>]

\* One response on the wire: status line, headers in order, body.  `via` names
\* the responder that produced it.
Resp(code, message, headers, via) ==
    [status |-> code, message |-> message, headers |-> headers, body |-> NoBody,
     via |-> via]

\* send_response: the status line plus the Server and Date headers.
StdHeaders == << <<"Server", "SimpleHTTP">>, <<"Date", "now">> >>

\* The three headers do_OPTIONS and the proxy's success path send themselves.
CorsHeaders ==
    << <<"Access-Control-Allow-Origin", "*">>,
       <<"Access-Control-Allow-Methods", "POST, GET, OPTIONS">>,
       <<"Access-Control-Allow-Headers", "Content-Type">> >>

\* ChatbotRequestHandler.end_headers: one more header, then the base class
\* sends the buffered headers.
end_headers_no_cors(headers) == headers
end_headers(headers) == Append(headers, <<"Access-Control-Allow-Origin", "*">>)

\* ---------------------------------------------------------------- the client connection
\* c = [out, budget, exc]: what was written, how many more writes succeed,
\* and the exception raised by a failed write ("none" if none).
Conn(w) == [out |-> <<>>, budget |-> w, exc |-> "none"]

\* flush_headers: one write of status line and headers.
WriteHeaders(c, r) ==
    IF c.exc # "none" THEN c
    ELSE IF c.budget = 0 THEN [c EXCEPT !.exc = "BrokenPipeError"]
    ELSE [c EXCEPT !.out = Append(@, r), !.budget = @ - 1]

\* wfile.write(body); writing b'' sends nothing.
WriteBody(c, body) ==
    IF c.exc # "none" THEN c
    ELSE IF body.kind = "bytes" /\ body.data = <<>> THEN c
    ELSE IF c.budget = 0 THEN [c EXCEPT !.exc = "BrokenPipeError"]
    ELSE [c EXCEPT !.out[Len(c.out)].body = body, !.budget = @ - 1]

\* BaseHTTPRequestHandler.send_error, which ends in self.end_headers().
send_error(c, code, message, command) ==
    LET hasBody == code >= 200 /\ code \notin {204, 205, 304}
        hdrs == StdHeaders \o << <<"Connection", "close">> >> \o
                (IF hasBody
                 THEN << <<"Content-Type", "text/html;charset=utf-8">>,
                         <<"Content-Length", "len">> >>
                 ELSE << >>)
        c1 == WriteHeaders(c, Resp(code, message, end_headers(hdrs), "send_error"))
    IN  IF command # "HEAD" /\ hasBody THEN WriteBody(c1, ErrorPage) ELSE c1

\* ---------------------------------------------------------------- exceptions
\* Direct base classes of the exception classes the proxy can meet.  The
\* requests classes are distinct from the builtins of the same name.
Bases(cls) ==
    CASE cls = "requests.ConnectTimeout"       -> {"requests.ConnectionError", "requests.Timeout"}
      [] cls = "requests.ReadTimeout"          -> {"requests.Timeout"}
      [] cls = "requests.ConnectionError"      -> {"requests.RequestException"}
      [] cls = "requests.Timeout"              -> {"requests.RequestException"}
      [] cls = "requests.ChunkedEncodingError" -> {"requests.RequestException"}
      [] cls = "requests.RequestException"     -> {"OSError"}
      [] cls = "BrokenPipeError"               -> {"ConnectionError"}
      [] cls = "ConnectionError"               -> {"OSError"}
      [] cls = "OSError"                       -> {"Exception"}
      [] cls = "TypeError"                     -> {"Exception"}
      [] cls = "ValueError"                    -> {"Exception"}
      [] OTHER                                 -> {}

RECURSIVE IsInstance(_, _)
IsInstance(cls, k) == cls = k \/ \E b \in Bases(cls) : IsInstance(b, k)

\* ---------------------------------------------------------------- the upstream
\* What requests.post(..., timeout=10) gives back: a response, or one of the
\* ways the attempt fails.
FailureKinds ==
    {"refused", "unreachable", "connect_timeout", "read_timeout", "malformed",
     "io_error", "bad_chunk"}

\* The exception class requests.post raises for each kind of failure.
Raised(kind) ==
    CASE kind = "refused"         -> "requests.ConnectionError"
      [] kind = "unreachable"     -> "requests.ConnectionError"
      [] kind = "connect_timeout" -> "requests.ConnectTimeout"
      [] kind = "read_timeout"    -> "requests.ReadTimeout"
      [] kind = "malformed"       -> "requests.ConnectionError"
      [] kind = "io_error"        -> "requests.ConnectionError"
      [] kind = "bad_chunk"       -> "requests.ChunkedEncodingError"

ByteValues == {1, 2}
Bodies == UNION { [1..n -> ByteValues] : n \in 0..MaxBody }
UpStatuses == {200, 201, 404, 500}
UpCtypes == {"application/json", "text/html"}

MkUp(k, st, body, ct) == [kind |-> k, status |-> st, content |-> body, ctype |-> ct]
NoUp == MkUp("none", 0, <<>>, "")

UpOutcomes ==
    { MkUp("response", st, b, ct) : st \in UpStatuses, b \in Bodies, ct \in UpCtypes }
    \cup { MkUp(k, 0, <<>>, "") : k \in FailureKinds }

\* ---------------------------------------------------------------- handlers
\* Every handler maps the connection to [conn, printed, fs]: the connection
\* afterwards, whether "Proxy error: ..." was printed, and whether the static
\* root was consulted.
Result(c, printed, fs) == [conn |-> c, printed |-> printed, fs |-> fs]

\* do_OPTIONS
do_OPTIONS_unsupported(c) ==
    Result(send_error(c, 501, "Unsupported method", "OPTIONS"), FALSE, 0)
do_OPTIONS(c) ==
    Result(WriteHeaders(c, Resp(200, "OK", end_headers(StdHeaders \o CorsHeaders), "options")),
           FALSE, 0)

\* SimpleHTTPRequestHandler.send_head followed by do_GET's copyfile (do_HEAD
\* copies nothing).
send_head_file(c, r, node) ==
    IF r.path.slash /\ FSNode(r.path.segs).kind # "dir"
    THEN send_error(c, 404, "File not found", r.method)
    ELSE IF node.kind # "file" \/ ~node.readable
    THEN send_error(c, 404, "File not found", r.method)
    ELSE IF r.ims
    THEN WriteHeaders(c, Resp(304, "Not Modified", end_headers(StdHeaders), "static"))
    ELSE LET hdrs == StdHeaders \o << <<"Content-type", "guessed">>,
                                      <<"Content-Length", "len">>,
                                      <<"Last-Modified", "mtime">> >>
             c1 == WriteHeaders(c, Resp(200, "OK", end_headers(hdrs), "static"))
         IN  IF r.method = "GET" THEN WriteBody(c1, Bytes(node.data)) ELSE c1

list_directory(c, r) ==
    LET hdrs == StdHeaders \o << <<"Content-type", "text/html; charset=utf-8">>,
                                 <<"Content-Length", "len">> >>
        c1 == WriteHeaders(c, Resp(200, "OK", end_headers(hdrs), "listing"))
    IN  IF r.method = "GET" THEN WriteBody(c1, Listing) ELSE c1

send_head_redirect(c) ==
    LET hdrs == StdHeaders \o << <<"Location", "path/">>, <<"Content-Length", "0">> >>
    IN  WriteHeaders(c, Resp(301, "Moved Permanently", end_headers(hdrs), "redirect"))

do_GET_no_listing(c, r) ==
    LET node == FSNode(r.path.segs)
    IN  Result(IF node.kind = "dir" /\ HasIndex(r.path.segs)
               THEN send_head_file(c, r, IndexNode(r.path.segs))
               ELSE IF node.kind = "dir"
               THEN send_error(c, 404, "File not found", r.method)
               ELSE send_head_file(c, r, node),
               FALSE, 1)
do_GET(c, r) ==
    LET node == FSNode(r.path.segs)
    IN  Result(IF node.kind = "dir"
               THEN IF ~r.path.slash THEN send_head_redirect(c)
                    ELSE IF HasIndex(r.path.segs)
                    THEN send_head_file(c, r, IndexNode(r.path.segs))
                    ELSE list_directory(c, r)
               ELSE send_head_file(c, r, node),
               FALSE, 1)

\* proxy_to_backend's two except clauses, entered with the exception raised
\* in the try block.
ProxyExceptAll503(c, exc, command) ==
    Result(send_error([c EXCEPT !.exc = "none"], 503, "Backend service unavailable", command),
           FALSE, 0)
ProxyExceptNoCatchAll(c, exc, command) ==
    IF IsInstance(exc, "requests.ConnectionError")
    THEN Result(send_error([c EXCEPT !.exc = "none"], 503, "Backend service unavailable", command),
                FALSE, 0)
    ELSE Result(c, FALSE, 0)
ProxyExcept(c, exc, command) ==
    IF IsInstance(exc, "requests.ConnectionError")
    THEN Result(send_error([c EXCEPT !.exc = "none"], 503, "Backend service unavailable", command),
                FALSE, 0)
    ELSE Result(send_error([c EXCEPT !.exc = "none"], 500, "Internal server error", command),
                TRUE, 0)

\* proxy_to_backend up to the read of the body: int(self.headers['Content-Length'])
ParseLength(r) ==
    CASE r.clenKind = "missing" -> "TypeError"
      [] r.clenKind = "bad"     -> "ValueError"
      [] OTHER                  -> "none"

\* proxy_to_backend after requests.post returned `u`: relay it.
RelayUpstreamCtype(c, u) ==
    LET hdrs == StdHeaders \o << <<"Content-Type", u.ctype>> >> \o CorsHeaders
        c1 == WriteHeaders(c, Resp(200, "OK", end_headers(hdrs), "proxy"))
    IN  WriteBody(c1, Bytes(u.content))
RelayNoCors(c, u) ==
    LET hdrs == StdHeaders \o << <<"Content-Type", "application/json">> >>
        c1 == WriteHeaders(c, Resp(u.status, "", end_headers(hdrs), "proxy"))
    IN  WriteBody(c1, Bytes(u.content))
Relay(c, u) ==
    LET hdrs == StdHeaders \o << <<"Content-Type", "application/json">> >> \o CorsHeaders
        c1 == WriteHeaders(c, Resp(u.status, "", end_headers(hdrs), "proxy"))
    IN  WriteBody(c1, Bytes(u.content))

\* The part of proxy_to_backend that follows the upstream call.
proxy_to_backend(c, u) ==
    IF u.kind = "response"
    THEN LET c1 == Relay(c, u)
         IN  IF c1.exc = "none" THEN Result(c1, FALSE, 0)
             ELSE ProxyExcept(c1, c1.exc, "POST")
    ELSE ProxyExcept(c, Raised(u.kind), "POST")

\* do_POST for everything that does not block; the proxy path with a usable
\* Content-Length continues in ReadBody.
do_POST(c, r) ==
    IF IsProxyPath(r.path)
    THEN ProxyExcept(c, ParseLength(r), "POST")
    ELSE Result(send_error(c, 404, "API endpoint not found", "POST"), FALSE, 0)

\* handle_one_request: dispatch on 'do_' + command.
handle_one_request(c, r) ==
    CASE r.method = "GET"     -> do_GET(c, r)
      [] r.method = "HEAD"    -> do_GET(c, r)
      [] r.method = "POST"    -> do_POST(c, r)
      [] r.method = "OPTIONS" -> do_OPTIONS(c)
      [] OTHER -> Result(send_error(c, 501, "Unsupported method", r.method), FALSE, 0)

\* ---------------------------------------------------------------- main
\* The errno of the OSError that TCPServer(("", PORT), ...) raises.
Errno(os, why) ==
    CASE why = "inuse" /\ os = "darwin" -> 48
      [] why = "inuse" /\ os = "linux"  -> 98
      [] OTHER                          -> 13

\* The errno main() compares with ("# Address already in use").
AddrInUseErrno == 48

\* socketserver: an Exception that leaves the handler is reported by
\* handle_error (a traceback) and the serve_forever loop goes on.
handle_error(c) == IF c.exc # "none" THEN {"traceback"} ELSE {}

Init ==
    /\ srv = "start"
    /\ platform \in {"linux", "darwin"}
    /\ bindFail = "none"
    /\ exitStatus = -1
    /\ console = {}
    /\ log = {}
    /\ hpc = "accept"
    /\ req = NoReq
    /\ post_data = 0
    /\ bodyRead = FALSE
    /\ up = NoUp
    /\ upCalls = 0
    /\ fsReads = 0
    /\ out = <<>>
    /\ escaped = FALSE
    /\ served = 0

\* main() up to serve_forever: bind, then either serve or report and return.
Start ==
    /\ srv = "start"
    /\ \E why \in {"none", "inuse", "denied"} :
         /\ bindFail' = why
         /\ IF why = "none"
            THEN /\ srv' = "serving"
                 /\ console' = console \cup {"banner"}
                 /\ UNCHANGED exitStatus
            ELSE /\ srv' = "exited"
                 /\ console' = console \cup
                        {IF Errno(platform, why) = AddrInUseErrno
                         THEN "port_in_use" ELSE "server_error"}
                 /\ exitStatus' = 0
    /\ UNCHANGED <<platform, log, hpc, req, post_data, bodyRead, up, upCalls, fsReads,
                   out, escaped, served>>

\* KeyboardInterrupt during serve_forever.
Interrupt ==
    /\ srv = "serving"
    /\ srv' = "exited"
    /\ console' = console \cup {"stopped"}
    /\ exitStatus' = 0
    /\ UNCHANGED <<platform, bindFail, log, hpc, req, post_data, bodyRead, up, upCalls,
                   fsReads, out, escaped, served>>

\* The end of a handler: what it wrote, what it printed, what escaped.
Finish(h) ==
    /\ hpc' = "accept"
    /\ out' = h.conn.out
    /\ escaped' = (h.conn.exc # "none")
    /\ log' = (IF h.printed THEN {"proxy_error"} ELSE {}) \cup handle_error(h.conn)

\* One request is accepted and handled, up to the first point where its
\* handler can block.
Accept ==
    /\ srv = "serving"
    /\ hpc = "accept"
    /\ served < MaxRequests
    /\ \E r \in Requests :
         /\ req' = r
         /\ IF r.method = "POST" /\ IsProxyPath(r.path) /\ ParseLength(r) = "none"
            THEN /\ hpc' = "read_body"
                 /\ out' = <<>>
                 /\ escaped' = FALSE
                 /\ fsReads' = 0
                 /\ log' = {}
            ELSE LET h == handle_one_request(Conn(r.wbudget), r)
                 IN  Finish(h) /\ fsReads' = h.fs
    /\ served' = served + 1
    /\ post_data' = 0
    /\ bodyRead' = FALSE
    /\ up' = NoUp
    /\ upCalls' = 0
    /\ UNCHANGED <<srv, platform, bindFail, exitStatus, console>>

\* post_data = self.rfile.read(content_length): returns once that many bytes
\* have arrived or the client has closed its sending side; a negative length
\* reads to the end of the stream.  The client socket has no timeout.
ReadBodyReady ==
    \/ req.eof
    \/ req.clenVal >= 0 /\ req.sent >= req.clenVal

ReadBody ==
    /\ srv = "serving"
    /\ hpc = "read_body"
    /\ ReadBodyReady
    /\ post_data' = IF req.clenVal < 0 THEN req.sent ELSE Min(req.clenVal, req.sent)
    /\ bodyRead' = TRUE
    /\ hpc' = "forward"
    /\ UNCHANGED <<srv, platform, bindFail, exitStatus, console, log, req, up, upCalls,
                   fsReads, out, escaped, served>>

\* requests.post(...) returns or raises, and the rest of proxy_to_backend runs.
Forward ==
    /\ srv = "serving"
    /\ hpc = "forward"
    /\ \E u \in UpOutcomes :
         /\ up' = u
         /\ Finish(proxy_to_backend(Conn(req.wbudget), u))
    /\ upCalls' = upCalls + 1
    /\ UNCHANGED <<srv, platform, bindFail, exitStatus, console, req, post_data,
                   bodyRead, fsReads, served>>

Next == Start \/ Interrupt \/ Accept \/ ReadBody \/ Forward

Spec == Init /\ [][Next]_vars

\* The handler's own steps are taken whenever they can be: the interpreter
\* runs the handler, and requests.post returns or raises within its timeout.
LiveSpec == Spec /\ WF_vars(ReadBody) /\ WF_vars(Forward)

\* ---------------------------------------------------------------- properties
\* The handling of the request in `req` is over.
Handled == hpc = "accept" /\ served > 0

HasHeader(r, k, v) == <<k, v>> \in Range(r.headers)
HeaderValues(r, k) == { h[2] : h \in { x \in Range(r.headers) : x[1] = k } }
Responses == Range(out)

ProxyPost == req.method = "POST" /\ req.path = Path(ProxySegs, FALSE, FALSE)

C2_Original ==
    req.method \in {"POST", "OPTIONS"} =>
        \A r \in Responses :
            /\ HasHeader(r, "Access-Control-Allow-Origin", "*")
            /\ HasHeader(r, "Access-Control-Allow-Methods", "POST, GET, OPTIONS")
            /\ HasHeader(r, "Access-Control-Allow-Headers", "Content-Type")

\* C2 amended: of the responses to POST and OPTIONS requests, the relayed
\* upstream response and the preflight response carry all three headers; the
\* error responses of a POST (404, 503, 500, sent by send_error) carry
\* Access-Control-Allow-Origin only.
C2_Amended ==
    req.method \in {"POST", "OPTIONS"} =>
        \A r \in Responses :
            /\ HasHeader(r, "Access-Control-Allow-Origin", "*")
            /\ r.via \in {"proxy", "options", "send_error"}
            /\ r.via \in {"proxy", "options"} =>
                 /\ HasHeader(r, "Access-Control-Allow-Methods", "POST, GET, OPTIONS")
                 /\ HasHeader(r, "Access-Control-Allow-Headers", "Content-Type")
            /\ r.via = "send_error" =>
                 /\ r.status \in {404, 503, 500}
                 /\ HeaderValues(r, "Access-Control-Allow-Methods") = {}
                 /\ HeaderValues(r, "Access-Control-Allow-Headers") = {}

C2_Witness ==
    /\ Handled
    /\ ProxyPost
    /\ up.kind = "response"
    /\ \E r \in Responses : r.via = "proxy"

ProxyFailed ==
    /\ Handled
    /\ ProxyPost
    /\ ClientStays(req)
    /\ up.kind \in FailureKinds \/ req.clenKind \in {"missing", "bad"}

\* C4 as stated: connection refused or upstream unreachable gives 503, every
\* other failure of a proxied POST gives 500.
C4_Original ==
    ProxyFailed =>
        /\ Len(out) = 1
        /\ out[1].status = IF up.kind \in {"refused", "unreachable"} THEN 503 ELSE 500

\* C4 amended: the status is 503 for every failure that requests reports as
\* a requests ConnectionError (refused, unreachable, connect timeout,
\* malformed or dropped upstream response, I/O error on the upstream socket)
\* and 500 for every other failure (read timeout, broken chunked body,
\* missing or non-numeric Content-Length).
C4_Amended ==
    ProxyFailed =>
        /\ Len(out) = 1
        /\ out[1].status =
             IF up.kind \in {"refused", "unreachable", "connect_timeout", "malformed",
                             "io_error"}
             THEN 503 ELSE 500

C4_Witness ==
    /\ ProxyFailed
    /\ up.kind = "read_timeout"
    /\ out[1].status = 500

\* C5: the handling of a proxied POST always comes to an end.
C5_HandlerTerminates == (hpc # "accept") ~> (hpc = "accept" \/ srv = "exited")

\* C6 as stated: whatever fails while a request is handled, a failure writing
\* to the client included, ends as an HTTP response for that request.
C6_Original == Handled => (~escaped /\ Len(out) >= 1)

\* C6 amended: the server leaves its accept loop only on an interrupt; a
\* request from a client that stays connected always ends as exactly one
\* response and no exception leaves its handler; an exception leaves the
\* handler only when the client connection broke, and is then reported by
\* socketserver, after which the next request is accepted.
C6_Amended ==
    Handled =>
        /\ srv = "serving" \/ "stopped" \in console
        /\ ClientStays(req) => (~escaped /\ Len(out) = 1)
        /\ escaped => (~ClientStays(req) /\ "traceback" \in log)
        /\ (srv = "serving" /\ served < MaxRequests) => ENABLED Accept

C6_Witness ==
    /\ Handled
    /\ srv = "serving"
    /\ served = MaxRequests
    /\ ProxyPost
    /\ req.clenKind = "bad"
    /\ ClientStays(req)
    /\ out[1].status = 500
    /\ "proxy_error" \in log

\* C7: a bind that fails because the port is in use prints the dedicated
\* message, never serves, and ends with a non-zero exit status.
C7_BindFailure ==
    (srv = "exited" /\ bindFail = "inuse") =>
        /\ "port_in_use" \in console
        /\ "banner" \notin console
        /\ exitStatus # 0

\* C8: an OPTIONS request for any path is answered 200 with an empty body
\* and the three CORS headers with their exact values, without an upstream
\* request, a read of the request body or a look at the static root.
C8_Preflight ==
    (Handled /\ req.method = "OPTIONS") =>
        /\ upCalls = 0
        /\ fsReads = 0
        /\ ~bodyRead
        /\ req.wbudget > 0 => Len(out) = 1
        /\ \A r \in Responses :
             /\ r.status = 200
             /\ r.body = NoBody
             /\ HeaderValues(r, "Access-Control-Allow-Origin") = {"*"}
             /\ HeaderValues(r, "Access-Control-Allow-Methods") = {"POST, GET, OPTIONS"}
             /\ HeaderValues(r, "Access-Control-Allow-Headers") = {"Content-Type"}

C8_Witness ==
    /\ Handled
    /\ req.method = "OPTIONS"
    /\ req.path = Path(<<"missing">>, FALSE, FALSE)
    /\ Len(out) = 1

GetHandled == Handled /\ req.method = "GET" /\ ClientStays(req)

\* C10 as stated: a GET that resolves neither to a regular file nor to a
\* directory with an index document is answered 404.
C10_Original ==
    (GetHandled /\ FSNode(req.path.segs).kind # "file"
                /\ ~(FSNode(req.path.segs).kind = "dir" /\ HasIndex(req.path.segs))) =>
        (Len(out) = 1 /\ out[1].status = 404)

\* C10 amended: a GET that resolves to nothing is answered 404; one that
\* resolves to a readable regular file is answered 200 with the file's bytes
\* (304 without a body when If-Modified-Since is current, 404 when the file
\* cannot be opened or the target ends in "/"); a directory asked for without
\* the trailing "/" is answered 301; a directory with an index document is
\* answered like that document; a directory without one is answered 200 with
\* a generated listing.
C10_Amended ==
    GetHandled =>
        /\ Len(out) = 1
        /\ LET n == FSNode(req.path.segs)
               f == IF n.kind = "dir" /\ HasIndex(req.path.segs)
                    THEN IndexNode(req.path.segs) ELSE n
               r == out[1]
           IN  CASE n.kind = "none" -> r.status = 404
                 [] n.kind = "dir" /\ ~req.path.slash -> r.status = 301 /\ r.body = NoBody
                 [] n.kind = "dir" /\ req.path.slash /\ ~HasIndex(req.path.segs) ->
                        r.status = 200 /\ r.body = Listing
                 [] n.kind = "file" /\ req.path.slash -> r.status = 404
                 [] OTHER ->
                        IF ~f.readable THEN r.status = 404
                        ELSE IF req.ims THEN r.status = 304 /\ r.body = NoBody
                        ELSE r.status = 200 /\ r.body = Bytes(f.data)

C10_Witness ==
    /\ GetHandled
    /\ req.path = Path(<<"css">>, TRUE, FALSE)
    /\ out[1].status = 200
    /\ out[1].body = Listing

====
